---- MODULE Spec2Model ----
(***************************************************************************)
(* Model of the incremental triangulator of                                *)
(* src/src/app/logic/triangulation.rs, of the affine transforms of         *)
(* src/src/app/polygon/transform2d.rs, of the polygon of                   *)
(* src/src/app/polygon.rs and of the editor of src/src/app/logic.rs.       *)
(*                                                                         *)
(* Points have integer coordinates, so every f32 operation of the source   *)
(* on them (differences, products, cross products) is exact.  Midpoints    *)
(* and circumcentres are rationals: positions inside calculate_center and  *)
(* lines_intersect are held in half units (twice the coordinate), and a    *)
(* quotient is held as numerator and denominator.  Indices are 1-based:    *)
(* index i of the model is index i-1 of the source, which keeps the order  *)
(* of indices, the only thing Edge::new and the scans depend on.           *)
(***************************************************************************)
EXTENDS Integers, Sequences, FiniteSets, TLC

\* ---- bounds of the model ------------------------------------------------
\* coordinates of the input points range over 0..GridMax
GridMax == 1
\* at most MaxPoints points are appended to the point list
MaxPoints == 4
\* the point lists find_right_conjugate_point is called on alone have
\* coordinates in 0..WideGridMax (on the grid 0..1 all circumcentres coincide)
WideGridMax == 2
\* a polygon built on the wider grid has at most MaxVertexes vertexes
MaxVertexes == 5
\* coefficients of the transforms and coordinates of the points they are
\* applied to range over -CoefMax..CoefMax
CoefMax == 1
\* the clicks on the canvas of the editor are at the points (x, 0) with x in
\* 0..ClickMax, and the canvas holds at most MaxCorners vertexes in all
ClickMax == 1
MaxCorners == 3

Coord == 0..GridMax
Pos2 == Coord \X Coord
WidePos2 == (0..WideGridMax) \X (0..WideGridMax)
Clicks == {<<x, 0>> : x \in 0..ClickMax}

VARIABLES
    points,        \* TriangulationState.points
    triangles,     \* TriangulationState.triangles, each as its 3 point indices
    alive_edges,   \* TriangulationState.alive_edges
    dead_edges,    \* TriangulationState.dead_edges
    call,          \* the operation called last
    \* what the last call did, when it was a step_triangulation:
    popped,        \* the edges it took from alive_edges, in order
    current_edge,  \* its local current_edge at the return
    right_point,   \* its local right_point at the return
    \* the Transform2D value at hand, and the last call made on it:
    transform,     \* the value (self of the methods)
    args,          \* the arguments of the call
    ret,           \* what the call returned, or that it panicked
    \* one Polygon:
    vertexes,      \* Polygon.vertexes
    intersections, \* Polygon.intersections
    \* AthenianApp:
    polygons,                 \* its polygons, each as [vertexes, intersections]
    selected_polygon_index,
    selected_polygon_anchor,
    selected_point

tvars == <<transform, args, ret>>

pvars == <<vertexes, intersections>>

evars == <<polygons, selected_polygon_index, selected_polygon_anchor, selected_point>>

vars == <<points, triangles, alive_edges, dead_edges, call, popped, current_edge, right_point,
          transform, args, ret, vertexes, intersections,
          polygons, selected_polygon_index, selected_polygon_anchor, selected_point>>

\* Option::None of an index, and the unset current_edge
None == 0
NoEdge == <<0, 0>>

\* ---- vectors ------------------------------------------------------------
Minus(p, q) == <<p[1] - q[1], p[2] - q[2]>>

\* ---- Edge ---------------------------------------------------------------
\* Edge::new without the swap of line 71
EdgeNew_AsGiven(a, b) == <<a, b>>

\* Edge::new of lines 69-73
EdgeNew(a, b) == IF a < b THEN <<a, b>> ELSE <<b, a>>

\* ---- orientation tests --------------------------------------------------
\* is_point_right with the comparison of line 247 reversed
is_point_right_Reversed(point, start, end) ==
    LET segment_vector == Minus(end, start)
        point_vector == Minus(point, start)
        cross_product == segment_vector[1] * point_vector[2]
                         - segment_vector[2] * point_vector[1]
    IN  cross_product > 0

\* is_point_right of lines 241-248
is_point_right(point, start, end) ==
    LET segment_vector == Minus(end, start)
        point_vector == Minus(point, start)
        cross_product == segment_vector[1] * point_vector[2]
                         - segment_vector[2] * point_vector[1]
    IN  cross_product < 0

is_point_left(point, start, end) ==
    LET segment_vector == Minus(end, start)
        point_vector == Minus(point, start)
        cross_product == segment_vector[1] * point_vector[2]
                         - segment_vector[2] * point_vector[1]
    IN  cross_product > 0

\* ---- circumcentre -------------------------------------------------------
\* Intersection of the lines ab and cd; the result is the point
\* (nx / den, ny / den) in the units of the arguments.  The arguments are in
\* half units, so the source's denominator is den / 4, a multiple of 1/4:
\* its magnitude is below f32::EPSILON exactly when it is 0.
lines_intersect(a, b, c, d) ==
    LET denominator == (a[1] - b[1]) * (c[2] - d[2]) - (a[2] - b[2]) * (c[1] - d[1])
        numerator_x == (a[1] * b[2] - a[2] * b[1]) * (c[1] - d[1])
                       - (a[1] - b[1]) * (c[1] * d[2] - c[2] * d[1])
        numerator_y == (a[1] * b[2] - a[2] * b[1]) * (c[2] - d[2])
                       - (a[2] - b[2]) * (c[1] * d[2] - c[2] * d[1])
    IN  IF denominator = 0
        THEN [some |-> FALSE, nx |-> 0, ny |-> 0, den |-> 1]
        ELSE [some |-> TRUE, nx |-> numerator_x, ny |-> numerator_y, den |-> denominator]

\* Centre of the circle through a, b, c, in half units.
calculate_center(a, b, c) ==
    LET ab == Minus(b, a)
        n_ab_start == <<a[1] + b[1], a[2] + b[2]>>
        n_ab_end == <<n_ab_start[1] + 2 * ab[2], n_ab_start[2] - 2 * ab[1]>>
        ac == Minus(c, a)
        n_ac_start == <<a[1] + c[1], a[2] + c[2]>>
        n_ac_end == <<n_ac_start[1] + 2 * ac[2], n_ac_start[2] - 2 * ac[1]>>
    IN  lines_intersect(n_ab_start, n_ab_end, n_ac_start, n_ac_end)

\* A distance is held as its square, the quotient num / den with den > 0;
\* f32::INFINITY is [inf |-> TRUE].
Infinity == [inf |-> TRUE, num |-> 0, den |-> 1]

\* distance from the midpoint of p1 p2 to center (a result of calculate_center)
MidDistance(p1, p2, center) ==
    LET mid_edge == <<p1[1] + p2[1], p1[2] + p2[2]>>
        dx == mid_edge[1] * center.den - center.nx
        dy == mid_edge[2] * center.den - center.ny
    IN  [inf |-> FALSE, num |-> dx * dx + dy * dy, den |-> center.den * center.den]

\* distance < best_distance
DistLess(distance, best_distance) ==
    IF distance.inf THEN FALSE
    ELSE IF best_distance.inf THEN TRUE
    ELSE distance.num * best_distance.den < best_distance.num * distance.den

\* ---- find_right_conjugate_point ------------------------------------------
RECURSIVE RightConjugateScan(_, _, _, _, _)
\* the loop over i, from index i on, with the best candidate so far
RightConjugateScan(pts, edge, i, best_point, best_distance) ==
    IF i > Len(pts) THEN best_point
    ELSE IF i = edge[1] \/ i = edge[2]
         THEN RightConjugateScan(pts, edge, i + 1, best_point, best_distance)
    ELSE LET p1 == pts[edge[1]]
             p2 == pts[edge[2]]
             p3 == pts[i]
             center == calculate_center(p1, p2, p3)
             distance == MidDistance(p1, p2, center)
         IN  IF ~is_point_right(p1, p2, p3)
             THEN RightConjugateScan(pts, edge, i + 1, best_point, best_distance)
             ELSE IF center.some /\ DistLess(distance, best_distance)
                  THEN RightConjugateScan(pts, edge, i + 1, i, distance)
                  ELSE RightConjugateScan(pts, edge, i + 1, best_point, best_distance)

find_right_conjugate_point(pts, edge) ==
    RightConjugateScan(pts, edge, 1, None, Infinity)

\* ---- find_initial_edge --------------------------------------------------
\* atan2(dy, dx) orders directions from -pi (exclusive) to pi; AngleRank is
\* the part of that range the direction <<dx, dy>> falls in.
AngleRank(v) ==
    IF v[2] < 0 THEN 0
    ELSE IF v[2] > 0 THEN 2
    ELSE IF v[1] >= 0 THEN 1
    ELSE 3

\* angle_with_horizontal(p1, p2) < angle_with_horizontal(p1, q2)
AngleLess(p1, p2, q2) ==
    LET v == Minus(p2, p1)
        w == Minus(q2, p1)
    IN  IF AngleRank(v) # AngleRank(w) THEN AngleRank(v) < AngleRank(w)
        ELSE IF AngleRank(v) \in {1, 3} THEN FALSE
        ELSE v[1] * w[2] - v[2] * w[1] > 0

RECURSIVE LeftmostScan(_, _, _)
LeftmostScan(pts, i, leftmost_idx) ==
    IF i > Len(pts) THEN leftmost_idx
    ELSE IF pts[i][1] < pts[leftmost_idx][1]
            \/ (pts[i][1] = pts[leftmost_idx][1] /\ pts[i][2] < pts[leftmost_idx][2])
         THEN LeftmostScan(pts, i + 1, i)
         ELSE LeftmostScan(pts, i + 1, leftmost_idx)

RECURSIVE MinAngleScan(_, _, _, _)
MinAngleScan(pts, leftmost_idx, i, best_idx) ==
    IF i > Len(pts) THEN best_idx
    ELSE IF i = leftmost_idx THEN MinAngleScan(pts, leftmost_idx, i + 1, best_idx)
    ELSE IF AngleLess(pts[leftmost_idx], pts[i], pts[best_idx])
         THEN MinAngleScan(pts, leftmost_idx, i + 1, i)
         ELSE MinAngleScan(pts, leftmost_idx, i + 1, best_idx)

\* find_initial_edge without the scan for the smallest angle
find_initial_edge_NoScan(pts) ==
    LET leftmost_idx == LeftmostScan(pts, 2, 1)
        best_idx == (leftmost_idx % Len(pts)) + 1
    IN  EdgeNew(leftmost_idx, best_idx)

find_initial_edge(pts) ==
    LET leftmost_idx == LeftmostScan(pts, 2, 1)
        best_idx == MinAngleScan(pts, leftmost_idx, 1, (leftmost_idx % Len(pts)) + 1)
    IN  EdgeNew(leftmost_idx, best_idx)

\* ---- Transform2D ----------------------------------------------------------
\* Coefficients, coordinates and the parameters of the constructors are small
\* integers, on which the f32 sums and products of the source are exact.  An
\* angle is a number of quarter turns: angle k of the model is the angle
\* k * pi / 2 of the source, whose cos and sin are 0, 1 or -1 (the f32 values
\* differ from them by less than 1e-7).
Transform2D(a, b, c, d, e, f) ==
    [a |-> a, b |-> b, c |-> c, d |-> d, e |-> e, f |-> f]

identity == Transform2D(1, 0, 0, 0, 1, 0)

Cos(angle) ==
    CASE angle % 4 = 0 -> 1
      [] angle % 4 = 2 -> -1
      [] OTHER -> 0

Sin(angle) ==
    CASE angle % 4 = 1 -> 1
      [] angle % 4 = 3 -> -1
      [] OTHER -> 0

rotation(angle_rad) ==
    LET cos_a == Cos(angle_rad)
        sin_a == Sin(angle_rad)
    IN  Transform2D(cos_a, sin_a, 0, -sin_a, cos_a, 0)

translation(dx, dy) == Transform2D(1, 0, dx, 0, 1, dy)

scaling(kx, ky) == Transform2D(kx, 0, 0, 0, ky, 0)

shear(shx, shy) == Transform2D(1, shx, 0, shy, 1, 0)

reflection_x == scaling(1, -1)

reflection_y == scaling(-1, 1)

\* multiply that applies the left operand first
multiply_LeftFirst(self, other) ==
    Transform2D(other.a * self.a + other.b * self.d,
                other.a * self.b + other.b * self.e,
                other.a * self.c + other.b * self.f + other.c,
                other.d * self.a + other.e * self.d,
                other.d * self.b + other.e * self.e,
                other.d * self.c + other.e * self.f + other.f)

multiply(self, other) ==
    Transform2D(self.a * other.a + self.b * other.d,
                self.a * other.b + self.b * other.e,
                self.a * other.c + self.b * other.f + self.c,
                self.d * other.a + self.e * other.d,
                self.d * other.b + self.e * other.e,
                self.d * other.c + self.e * other.f + self.f)

apply(self, x, y) ==
    <<self.a * x + self.b * y + self.c, self.d * x + self.e * y + self.f>>

determinant(self) == self.a * self.e - self.b * self.d

\* what a call gives back: the value it returns, or a panic
Returned(value) == [panic |-> FALSE, value |-> value]
Panicked == [panic |-> TRUE, value |-> <<>>]

\* inverse, for a determinant of 0, 1 or -1, where 1.0 / det is exact
inverse(self) ==
    LET det == determinant(self)
    IN  IF det = 0 THEN Panicked
        ELSE LET inv_det == 1 \div det
             IN  Returned(Transform2D(
                     self.e * inv_det,
                     (-self.d) * inv_det,
                     (self.d * self.f - self.c * self.e) * inv_det,
                     (-self.b) * inv_det,
                     self.a * inv_det,
                     (self.c * self.b - self.a * self.f) * inv_det))

\* rotation_around_point without the translation back to the centre
rotation_around_point_NoReturn(angle_rad, center_x, center_y) ==
    multiply(rotation(angle_rad), translation(-center_x, -center_y))

rotation_around_point(angle_rad, center_x, center_y) ==
    multiply(multiply(translation(center_x, center_y), rotation(angle_rad)),
             translation(-center_x, -center_y))

\* no call has been made on the identity transform
InitTransform ==
    /\ transform = identity
    /\ args = <<>>
    /\ ret = Returned(identity)

\* ---- Polygon --------------------------------------------------------------
\* Vertexes have integer coordinates.  A point of the intersection cache is a
\* quotient <<nx, ny, den>> for (nx / den, ny / den), kept in lowest terms
\* with den > 0, so that two cache points are near each other (within 1e-6,
\* line 249) exactly when they are equal.
RECURSIVE Gcd(_, _)
Gcd(m, n) == IF n = 0 THEN m ELSE Gcd(n, m % n)

AbsVal(m) == IF m < 0 THEN -m ELSE m

Lowest(q) ==
    LET g == Gcd(Gcd(AbsVal(q[1]), AbsVal(q[2])), AbsVal(q[3]))
        sg == IF q[3] < 0 THEN -g ELSE g
    IN  <<q[1] \div sg, q[2] \div sg, q[3] \div sg>>

\* Option::None of a Pos2
NoPos == <<>>

\* segments_intersect(a, b, c, d) for integer points: the cache point, or
\* NoPos.  t is numerator / denominator, s is dot_product / (den *
\* cd_length_squared) with the intersection <<ix, iy>> / den.
segments_intersect(a, b, c, d) ==
    LET ab_dir == <<b[1] - a[1], b[2] - a[2]>>
        cd_dir == <<d[1] - c[1], d[2] - c[2]>>
        n == <<-cd_dir[2], cd_dir[1]>>
        denominator == n[1] * ab_dir[1] + n[2] * ab_dir[2]
        ac == <<a[1] - c[1], a[2] - c[2]>>
        numerator == -(n[1] * ac[1] + n[2] * ac[2])
        ix == a[1] * denominator + numerator * ab_dir[1]
        iy == a[2] * denominator + numerator * ab_dir[2]
        dot_product == cd_dir[1] * (ix - c[1] * denominator)
                       + cd_dir[2] * (iy - c[2] * denominator)
        cd_length_squared == cd_dir[1] * cd_dir[1] + cd_dir[2] * cd_dir[2]
        s_den == denominator * cd_length_squared
    IN  IF denominator = 0 THEN NoPos
        ELSE IF ~(numerator * denominator >= 0
                  /\ AbsVal(numerator) <= AbsVal(denominator)) THEN NoPos
        ELSE IF ~(dot_product * s_den >= 0
                  /\ AbsVal(dot_product) <= AbsVal(s_den)) THEN NoPos
        ELSE Lowest(<<ix, iy, denominator>>)

\* the pairs <<i, j>> of edges update_intersections tests, in its order
\* (1-based: edge i runs from vertex i to vertex (i % n) + 1)
RECURSIVE EdgePairs(_, _, _)
EdgePairs(n, i, j) ==
    IF i > n THEN <<>>
    ELSE IF j > n THEN EdgePairs(n, i + 1, i + 3)
    ELSE IF (j % n) + 1 = i THEN EdgePairs(n, i, j + 1)
    ELSE <<<<i, j>>>> \o EdgePairs(n, i, j + 1)

InList(q, list) == \E k \in 1..Len(list) : list[k] = q

RECURSIVE CollectIntersections(_, _, _, _)
CollectIntersections(vs, pairs, k, found) ==
    IF k > Len(pairs) THEN found
    ELSE LET n == Len(vs)
             i == pairs[k][1]
             j == pairs[k][2]
             intersection == segments_intersect(vs[i], vs[(i % n) + 1],
                                                vs[j], vs[(j % n) + 1])
         IN  IF intersection # NoPos /\ ~InList(intersection, found)
             THEN CollectIntersections(vs, pairs, k + 1, Append(found, intersection))
             ELSE CollectIntersections(vs, pairs, k + 1, found)

\* the list update_intersections leaves in self.intersections
update_intersections(vs) ==
    IF Len(vs) < 4 THEN <<>>
    ELSE CollectIntersections(vs, EdgePairs(Len(vs), 1, 3), 1, <<>>)

\* the sign the loop of is_convex holds after the triples from i on, or
\* "mixed" once two non-zero cross products differ in sign
RECURSIVE ConvexScan(_, _, _)
ConvexScan(vs, i, sign) ==
    IF i > Len(vs) THEN "same"
    ELSE LET n == Len(vs)
             p1 == vs[i]
             p2 == vs[(i % n) + 1]
             p3 == vs[((i + 1) % n) + 1]
             cross_product == (p2[1] - p1[1]) * (p3[2] - p2[2])
                              - (p2[2] - p1[2]) * (p3[1] - p2[1])
             current_sign == IF cross_product > 0 THEN 1 ELSE -1
         IN  IF cross_product = 0 THEN ConvexScan(vs, i + 1, sign)
             ELSE IF sign = 0 THEN ConvexScan(vs, i + 1, current_sign)
             ELSE IF sign # current_sign THEN "mixed"
             ELSE ConvexScan(vs, i + 1, sign)

\* is_convex without the comparison of the turn signs
is_convex_AnySign(vs) == IF Len(vs) < 3 THEN FALSE ELSE TRUE

\* is_convex of lines 80-109
is_convex(vs) == IF Len(vs) < 3 THEN FALSE ELSE ConvexScan(vs, 1, 0) = "same"

\* transform.apply_to_pos on a vertex
ApplyToVertex(t, v) == apply(t, v[1], v[2])

\* transform.apply_to_pos on a cache point
ApplyToCachePoint(t, q) ==
    Lowest(<<t.a * q[1] + t.b * q[2] + t.c * q[3],
             t.d * q[1] + t.e * q[2] + t.f * q[3],
             q[3]>>)

\* no Polygon has been built
InitPolygon ==
    /\ vertexes = <<>>
    /\ intersections = <<>>

\* AthenianApp::default()
InitEditor ==
    /\ polygons = <<>>
    /\ selected_polygon_index = None
    /\ selected_polygon_anchor = NoPos
    /\ selected_point = NoPos

\* ---- TriangulationState --------------------------------------------------
is_triangulation_initialized == alive_edges # {} \/ dead_edges # {}

is_triangulation_completed == alive_edges = {} /\ dead_edges # {}

Init ==
    /\ points = <<>>
    /\ triangles = <<>>
    /\ alive_edges = {}
    /\ dead_edges = {}
    /\ call = "default"
    /\ popped = <<>>
    /\ current_edge = NoEdge
    /\ right_point = None
    /\ InitTransform
    /\ InitPolygon
    /\ InitEditor

\* The owner of the state appends a point; the point list is frozen once a
\* triangulation has been started.
AddPoint(p) ==
    /\ Len(points) < MaxPoints
    /\ ~is_triangulation_initialized
    /\ triangles = <<>>
    /\ points' = Append(points, p)
    /\ call' = "push"
    /\ popped' = <<>>
    /\ current_edge' = NoEdge
    /\ right_point' = None
    /\ UNCHANGED <<triangles, alive_edges, dead_edges>>
    /\ UNCHANGED <<tvars, pvars, evars>>

\* init_triangulation that returns early only below 2 points
init_triangulation_OffByOne ==
    /\ call' = "init"
    /\ IF Len(points) < 2
       THEN UNCHANGED <<points, triangles, alive_edges, dead_edges>>
       ELSE /\ triangles' = <<>>
            /\ alive_edges' = {find_initial_edge(points)}
            /\ dead_edges' = {}
            /\ UNCHANGED points
    /\ popped' = <<>>
    /\ current_edge' = NoEdge
    /\ right_point' = None
    /\ UNCHANGED <<tvars, pvars, evars>>

\* init_triangulation without line 83: dead_edges is not cleared
init_triangulation_KeepsDead ==
    /\ call' = "init"
    /\ IF Len(points) < 3
       THEN UNCHANGED <<points, triangles, alive_edges, dead_edges>>
       ELSE /\ triangles' = <<>>
            /\ alive_edges' = {find_initial_edge(points)}
            /\ UNCHANGED dead_edges
            /\ UNCHANGED points
    /\ popped' = <<>>
    /\ current_edge' = NoEdge
    /\ right_point' = None
    /\ UNCHANGED <<tvars, pvars, evars>>

init_triangulation ==
    /\ call' = "init"
    /\ IF Len(points) < 3
       THEN UNCHANGED <<points, triangles, alive_edges, dead_edges>>
       ELSE /\ triangles' = <<>>
            /\ alive_edges' = {find_initial_edge(points)}
            /\ dead_edges' = {}
            /\ UNCHANGED points
    /\ popped' = <<>>
    /\ current_edge' = NoEdge
    /\ right_point' = None
    /\ UNCHANGED <<tvars, pvars, evars>>

\* The two edges step_triangulation considers after a triangle on edge with
\* best_point, in the order of the array edges_to_add.
EdgesToAdd(pts, edge, best_point) ==
    << IF is_point_left(pts[edge[2]], pts[edge[1]], pts[best_point])
       THEN EdgeNew(edge[1], best_point)
       ELSE EdgeNew(best_point, edge[1]),
       IF is_point_left(pts[edge[1]], pts[edge[2]], pts[best_point])
       THEN EdgeNew(edge[2], best_point)
       ELSE EdgeNew(best_point, edge[2]) >>

\* ConsiderEdge without line 148: the edge found a second time stays alive
ConsiderEdge_KeepAlive(sets, edge) ==
    LET alive == sets[1]
        dead == sets[2]
    IN  IF edge \notin dead /\ edge \notin alive
        THEN <<alive \cup {edge}, dead>>
        ELSE IF edge \in alive
             THEN <<alive, dead \cup {edge}>>
             ELSE sets

\* one iteration of `for edge in edges_to_add`, on the pair <<alive, dead>>
ConsiderEdge(sets, edge) ==
    LET alive == sets[1]
        dead == sets[2]
    IN  IF edge \notin dead /\ edge \notin alive
        THEN <<alive \cup {edge}, dead>>
        ELSE IF edge \in alive
             THEN <<alive \ {edge}, dead \cup {edge}>>
             ELSE sets

\* the edges the search loop discards: already dead, or without a right
\* conjugate point
Discarded(edge) ==
    edge \in dead_edges \/ find_right_conjugate_point(points, edge) = None

\* all sequences without repetition over the set S
RECURSIVE Orders(_)
Orders(S) ==
    IF S = {} THEN {<<>>}
    ELSE UNION {{<<e>> \o o : o \in Orders(S \ {e})} : e \in S}

\* TriangleStep without line 152: the current edge is not marked dead
TriangleStep_CurrentNotDead(pts, tris, alive, dead, skipped, edge) ==
    LET best_point == find_right_conjugate_point(pts, edge)
        edges_to_add == EdgesToAdd(pts, edge, best_point)
        after_loop == <<alive \ (skipped \cup {edge}), dead>>
        after_for == ConsiderEdge(ConsiderEdge(after_loop, edges_to_add[1]),
                                  edges_to_add[2])
    IN  [triangles |-> Append(tris, <<edge[1], edge[2], best_point>>),
         alive |-> after_for[1],
         dead |-> after_for[2],
         best_point |-> best_point]

\* lines 115-152 of step_triangulation: the state after the search loop took
\* the edges of skipped and then edge, whose right conjugate point exists
TriangleStep(pts, tris, alive, dead, skipped, edge) ==
    LET best_point == find_right_conjugate_point(pts, edge)
        edges_to_add == EdgesToAdd(pts, edge, best_point)
        after_loop == <<alive \ (skipped \cup {edge}), dead>>
        after_for == ConsiderEdge(ConsiderEdge(after_loop, edges_to_add[1]),
                                  edges_to_add[2])
    IN  [triangles |-> Append(tris, <<edge[1], edge[2], best_point>>),
         alive |-> after_for[1],
         dead |-> after_for[2] \cup {edge},
         best_point |-> best_point]

\* step_triangulation that clears the triangle list when its loop returns on
\* the empty set
step_triangulation_ClearsOnEmpty ==
    /\ call' = "step"
    /\ UNCHANGED points
    /\ UNCHANGED <<tvars, pvars, evars>>
    /\ LET discarded == {e \in alive_edges : Discarded(e)}
       IN  \/ /\ discarded = alive_edges
              /\ \E order \in Orders(alive_edges) :
                    /\ popped' = order
                    /\ current_edge' = IF order = <<>> THEN NoEdge
                                       ELSE order[Len(order)]
              /\ right_point' = None
              /\ alive_edges' = {}
              /\ triangles' = <<>>
              /\ UNCHANGED dead_edges
           \/ \E edge \in alive_edges \ discarded :
                 \E skipped \in SUBSET discarded :
                    \E order \in Orders(skipped) :
                       LET after == TriangleStep(points, triangles, alive_edges,
                                                 dead_edges, skipped, edge)
                       IN  /\ popped' = Append(order, edge)
                           /\ current_edge' = edge
                           /\ right_point' = after.best_point
                           /\ triangles' = after.triangles
                           /\ alive_edges' = after.alive
                           /\ dead_edges' = after.dead

step_triangulation ==
    /\ call' = "step"
    /\ UNCHANGED points
    /\ UNCHANGED <<tvars, pvars, evars>>
    /\ LET discarded == {e \in alive_edges : Discarded(e)}
       IN  \/ \* every alive edge is taken and discarded; the loop returns on
              \* the empty set
              /\ discarded = alive_edges
              /\ \E order \in Orders(alive_edges) :
                    /\ popped' = order
                    /\ current_edge' = IF order = <<>> THEN NoEdge
                                       ELSE order[Len(order)]
              /\ right_point' = None
              /\ alive_edges' = {}
              /\ UNCHANGED <<triangles, dead_edges>>
           \/ \* some discarded edges are taken first, then an edge with a
              \* right conjugate point
              \E edge \in alive_edges \ discarded :
                 \E skipped \in SUBSET discarded :
                    \E order \in Orders(skipped) :
                       LET after == TriangleStep(points, triangles, alive_edges,
                                                 dead_edges, skipped, edge)
                       IN  /\ popped' = Append(order, edge)
                           /\ current_edge' = edge
                           /\ right_point' = after.best_point
                           /\ triangles' = after.triangles
                           /\ alive_edges' = after.alive
                           /\ dead_edges' = after.dead

Next ==
    \/ \E p \in Pos2 : AddPoint(p)
    \/ init_triangulation
    \/ step_triangulation

Spec == Init /\ [][Next]_vars

\* ---- the owner reuses the state -------------------------------------------
\* While no edge is alive the owner cuts the public point list down to len
\* points, a length at which init_triangulation does nothing; the triangles
\* and edges of an earlier triangulation stay in the state.
TruncatePoints(len) ==
    /\ alive_edges = {}
    /\ len < Len(points)
    /\ len < 3
    /\ points' = SubSeq(points, 1, len)
    /\ call' = "truncate"
    /\ popped' = <<>>
    /\ current_edge' = NoEdge
    /\ right_point' = None
    /\ UNCHANGED <<triangles, alive_edges, dead_edges>>
    /\ UNCHANGED <<tvars, pvars, evars>>

NextEdit ==
    \/ \E p \in Pos2 : AddPoint(p)
    \/ init_triangulation
    \/ step_triangulation
    \/ \E len \in 0..2 : TruncatePoints(len)

EditSpec == Init /\ [][NextEdit]_vars

\* ---- Transform2D called alone ------------------------------------------------
Coefs == -CoefMax..CoefMax

\* a full turn in quarter turns
Angles == 0..3

\* the transforms the methods are called on: any linear part, and a
\* translation part without negative entries
Transforms ==
    {Transform2D(a, b, c, d, e, f) :
        a \in Coefs, b \in Coefs, c \in 0..CoefMax,
        d \in Coefs, e \in Coefs, f \in 0..CoefMax}

\* the transforms the constructors of lines 32-111 build
Primitives ==
    {identity, reflection_x, reflection_y}
    \cup {rotation(angle) : angle \in Angles}
    \cup {translation(dx, dy) : dx \in Coefs, dy \in Coefs}
    \cup {scaling(kx, ky) : kx \in Coefs, ky \in Coefs}
    \cup {shear(shx, shy) : shx \in Coefs, shy \in Coefs}

\* the variables of the triangulator, which the transforms do not touch
svars == <<points, triangles, alive_edges, dead_edges, popped, current_edge, right_point>>

TransformInit ==
    /\ points = <<>>
    /\ triangles = <<>>
    /\ alive_edges = {}
    /\ dead_edges = {}
    /\ call = "default"
    /\ popped = <<>>
    /\ current_edge = NoEdge
    /\ right_point = None
    /\ transform \in Transforms
    /\ args = <<>>
    /\ ret = Returned(transform)
    /\ InitPolygon
    /\ InitEditor

\* A value is drawn or built, and then one method is called on it: no
\* method has been called on the transform at hand yet.
NoMethodCalled == call \notin {"multiply", "inverse"}

\* transform.multiply(&other)
Multiply(other) ==
    /\ NoMethodCalled
    /\ call' = "multiply"
    /\ args' = <<other>>
    /\ ret' = Returned(multiply(transform, other))
    /\ UNCHANGED <<transform, svars, pvars, evars>>

\* transform.inverse(), on the transforms whose inverse has integer
\* coefficients and on the singular ones
Inverse ==
    /\ NoMethodCalled
    /\ determinant(transform) \in {-1, 0, 1}
    /\ call' = "inverse"
    /\ args' = <<>>
    /\ ret' = inverse(transform)
    /\ UNCHANGED <<transform, svars, pvars, evars>>

\* let transform = Transform2D::rotation(angle)
Rotation(angle) ==
    /\ NoMethodCalled
    /\ call' = "rotation"
    /\ args' = <<angle>>
    /\ ret' = Returned(rotation(angle))
    /\ transform' = rotation(angle)
    /\ UNCHANGED <<svars, pvars, evars>>

\* let transform = Transform2D::rotation_around_point(angle, center_x, center_y)
RotationAroundPoint(angle, center_x, center_y) ==
    /\ NoMethodCalled
    /\ call' = "rotation_around_point"
    /\ args' = <<angle, center_x, center_y>>
    /\ ret' = Returned(rotation_around_point(angle, center_x, center_y))
    /\ transform' = rotation_around_point(angle, center_x, center_y)
    /\ UNCHANGED <<svars, pvars, evars>>

TransformNext ==
    \/ \E other \in Primitives : Multiply(other)
    \/ Inverse
    \/ \E angle \in Angles : Rotation(angle)
    \/ \E angle \in Angles : \E center_x, center_y \in Coefs :
          RotationAroundPoint(angle, center_x, center_y)

TransformSpec == TransformInit /\ [][TransformNext]_vars

\* ---- one Polygon -------------------------------------------------------------
\* the triangulator is idle
NoTriangulation ==
    /\ points = <<>>
    /\ triangles = <<>>
    /\ alive_edges = {}
    /\ dead_edges = {}
    /\ popped = <<>>
    /\ current_edge = NoEdge
    /\ right_point = None

RECURSIVE MapVertexes(_, _, _)
MapVertexes(t, vs, i) ==
    IF i > Len(vs) THEN <<>>
    ELSE <<ApplyToVertex(t, vs[i])>> \o MapVertexes(t, vs, i + 1)

RECURSIVE MapCachePoints(_, _, _)
MapCachePoints(t, qs, i) ==
    IF i > Len(qs) THEN <<>>
    ELSE <<ApplyToCachePoint(t, qs[i])>> \o MapCachePoints(t, qs, i + 1)

\* Polygon::new(x, y), on a point of the grid
PolygonInit ==
    /\ NoTriangulation
    /\ InitTransform
    /\ InitEditor
    /\ call = "new"
    /\ \E p \in Pos2 : vertexes = <<p>>
    /\ intersections = <<>>

\* Polygon::new(x, y), on a point of the wider grid
WidePolygonInit ==
    /\ NoTriangulation
    /\ InitTransform
    /\ InitEditor
    /\ call = "new"
    /\ \E p \in WidePos2 : vertexes = <<p>>
    /\ intersections = <<>>

\* add_vertex that does not recompute the cache
add_vertex_NoUpdate(x, y) ==
    /\ call' = "add_vertex"
    /\ vertexes' = Append(vertexes, <<x, y>>)
    /\ UNCHANGED intersections
    /\ UNCHANGED <<svars, tvars, evars>>

add_vertex(x, y) ==
    /\ call' = "add_vertex"
    /\ vertexes' = Append(vertexes, <<x, y>>)
    /\ intersections' = update_intersections(vertexes')
    /\ UNCHANGED <<svars, tvars, evars>>

\* apply_transform(transform): every vertex and every cached point is mapped
apply_transform(t) ==
    /\ call' = "apply_transform"
    /\ vertexes' = MapVertexes(t, vertexes, 1)
    /\ intersections' = MapCachePoints(t, intersections, 1)
    /\ UNCHANGED <<svars, tvars, evars>>

\* the transform leaves every vertex on the grid
StaysOnGrid(t) == \A i \in 1..Len(vertexes) : ApplyToVertex(t, vertexes[i]) \in Pos2

PolygonNext ==
    \/ \E p \in Pos2 : Len(vertexes) < MaxPoints /\ add_vertex(p[1], p[2])
    \/ \E t \in Primitives : StaysOnGrid(t) /\ apply_transform(t)

PolygonSpec == PolygonInit /\ [][PolygonNext]_vars

\* polygons built by add_vertex alone, on the wider grid
BuildNext ==
    \E p \in WidePos2 : Len(vertexes) < MaxVertexes /\ add_vertex(p[1], p[2])

BuildSpec == WidePolygonInit /\ [][BuildNext]_vars

\* ---- AthenianApp: the editor ------------------------------------------------
\* A polygon of the list polygons is a record of its two fields.  Some(i) of
\* the source is the index i + 1 of the model, whose sequences start at 1.
\* handle_click and handle_drag call one of the operations below according to
\* the instrument, which the panel sets at will, so every operation can follow
\* every other.
PolygonFromPos(pos) == [vertexes |-> <<pos>>, intersections |-> <<>>]

PolygonAddVertexPos(polygon, pos) ==
    LET vs == Append(polygon.vertexes, pos)
    IN  [vertexes |-> vs, intersections |-> update_intersections(vs)]

PolygonApplyTransform(polygon, t) ==
    [vertexes |-> MapVertexes(t, polygon.vertexes, 1),
     intersections |-> MapCachePoints(t, polygon.intersections, 1)]

\* the ray casting loop of contains for i in k - 1 .. n - 1: inside after it
RECURSIVE RayCast(_, _, _, _, _)
RayCast(vs, x, y, k, inside) ==
    IF k > Len(vs) THEN inside
    ELSE LET vi == vs[k]
             vj == vs[(k % Len(vs)) + 1]
             dy == vj[2] - vi[2]
             lhs == (x - vi[1]) * dy
             rhs == (vj[1] - vi[1]) * (y - vi[2])
             crosses == /\ (vi[2] > y) # (vj[2] > y)
                        /\ IF dy > 0 THEN lhs < rhs ELSE lhs > rhs
         IN  RayCast(vs, x, y, k + 1, IF crosses THEN ~inside ELSE inside)

\* Polygon::contains on integer coordinates
contains(vs, x, y) ==
    CASE Len(vs) = 0 -> FALSE
      [] Len(vs) = 1 -> vs[1][1] = x /\ vs[1][2] = y
      [] Len(vs) = 2 ->
            LET p1 == vs[1]
                p2 == vs[2]
                cross == (p2[1] - p1[1]) * (y - p1[2]) - (p2[2] - p1[2]) * (x - p1[1])
                dot == (x - p1[1]) * (p2[1] - p1[1]) + (y - p1[2]) * (p2[2] - p1[2])
                len2 == (p2[1] - p1[1]) * (p2[1] - p1[1]) + (p2[2] - p1[2]) * (p2[2] - p1[2])
            IN  IF cross # 0 THEN FALSE ELSE dot >= 0 /\ dot <= len2
      [] OTHER -> RayCast(vs, x, y, 1, FALSE)

\* the sums of the coordinates and the number of vertexes: get_center is
\* (sum_x / n, sum_y / n)
RECURSIVE SumOfVertexes(_, _)
SumOfVertexes(vs, i) ==
    IF i > Len(vs) THEN <<0, 0>>
    ELSE LET rest == SumOfVertexes(vs, i + 1)
         IN  <<vs[i][1] + rest[1], vs[i][2] + rest[2]>>

CenterIsOnGrid(vs) ==
    SumOfVertexes(vs, 1)[1] % Len(vs) = 0 /\ SumOfVertexes(vs, 1)[2] % Len(vs) = 0

get_center(vs) ==
    <<SumOfVertexes(vs, 1)[1] \div Len(vs), SumOfVertexes(vs, 1)[2] \div Len(vs)>>

\* atan2 of a vector along an axis, in quarter turns
Atan2(y, x) ==
    CASE y = 0 /\ x >= 0 -> 0
      [] y = 0 /\ x < 0 -> 2
      [] y > 0 -> 1
      [] OTHER -> -1

AlongAxis(v) == IF v[1] = 0 THEN TRUE ELSE v[2] = 0

calculate_rotation_angle(center, start, end) ==
    LET start_vec == Minus(start, center)
        end_vec == Minus(end, center)
        angle == Atan2(start_vec[2], start_vec[1]) - Atan2(end_vec[2], end_vec[1])
    IN  IF angle > 2 THEN angle - 4
        ELSE IF angle < -2 THEN angle + 4
        ELSE angle

\* the quotient end / start of calculate_scale is an integer
ScaleIsOnGrid(start, end) == IF start = 0 THEN TRUE ELSE end % AbsVal(start) = 0

ScaleOf(start, end) ==
    IF start = 0 THEN 1
    ELSE IF start < 0 THEN (-end) \div (-start)
    ELSE end \div start

calculate_scale(center, start, end) ==
    LET start_vec == Minus(start, center)
        end_vec == Minus(end, center)
    IN  <<ScaleOf(start_vec[1], end_vec[1]), ScaleOf(start_vec[2], end_vec[2])>>

scaling_around_point(kx, ky, center_x, center_y) ==
    multiply(multiply(translation(center_x, center_y), scaling(kx, ky)),
             translation(-center_x, -center_y))

\* the number of vertexes on the canvas
RECURSIVE VertexCount(_, _)
VertexCount(ps, i) ==
    IF i > Len(ps) THEN 0 ELSE Len(ps[i].vertexes) + VertexCount(ps, i + 1)

\* every vertex of the polygon is a point a click can be at
OnCanvas(polygon) ==
    \A i \in 1..Len(polygon.vertexes) : polygon.vertexes[i] \in Clicks

\* the polygon of the first index whose polygon contains pos, or None
RECURSIVE FirstContaining(_, _, _)
FirstContaining(ps, pos, i) ==
    IF i > Len(ps) THEN None
    ELSE IF contains(ps[i].vertexes, pos[1], pos[2]) THEN i
    ELSE FirstContaining(ps, pos, i + 1)

EditorInit ==
    /\ NoTriangulation
    /\ InitTransform
    /\ InitPolygon
    /\ InitEditor
    /\ call = "default"

\* clear_canvas that leaves the selection as it was
clear_canvas_KeepsSelection ==
    /\ call' = "clear_canvas"
    /\ polygons' = <<>>
    /\ selected_polygon_anchor' = NoPos
    /\ selected_point' = NoPos
    /\ UNCHANGED selected_polygon_index
    /\ UNCHANGED <<svars, tvars, pvars>>

\* clear_canvas of lines 37-42
clear_canvas ==
    /\ call' = "clear_canvas"
    /\ polygons' = <<>>
    /\ selected_polygon_index' = None
    /\ selected_polygon_anchor' = NoPos
    /\ selected_point' = NoPos
    /\ UNCHANGED <<svars, tvars, pvars>>

add_vertex_to_selected_polygon(pos) ==
    /\ call' = "add_vertex_to_selected_polygon"
    /\ IF selected_polygon_index # None
       THEN /\ polygons' = [polygons EXCEPT ![selected_polygon_index] =
                                PolygonAddVertexPos(@, pos)]
            /\ UNCHANGED selected_polygon_index
       ELSE /\ polygons' = Append(polygons, PolygonFromPos(pos))
            /\ selected_polygon_index' = Len(polygons')
    /\ UNCHANGED <<selected_polygon_anchor, selected_point>>
    /\ UNCHANGED <<svars, tvars, pvars>>

select_polygon(pos) ==
    /\ call' = "select_polygon"
    /\ selected_polygon_anchor' = NoPos
    /\ selected_polygon_index' = FirstContaining(polygons, pos, 1)
    /\ UNCHANGED <<polygons, selected_point>>
    /\ UNCHANGED <<svars, tvars, pvars>>

change_anchor(pos) ==
    /\ call' = "change_anchor"
    /\ selected_polygon_anchor' = pos
    /\ UNCHANGED <<polygons, selected_polygon_index, selected_point>>
    /\ UNCHANGED <<svars, tvars, pvars>>

change_point(pos) ==
    /\ call' = "change_point"
    /\ selected_point' = pos
    /\ UNCHANGED <<polygons, selected_polygon_index, selected_polygon_anchor>>
    /\ UNCHANGED <<svars, tvars, pvars>>

\* the selected polygon after apply_transform(t), kept on the canvas
TransformSelected(t) ==
    LET moved == PolygonApplyTransform(polygons[selected_polygon_index], t)
    IN  /\ OnCanvas(moved)
        /\ polygons' = [polygons EXCEPT ![selected_polygon_index] = moved]

\* the anchor, or the center of the selected polygon when no anchor is set
PivotIsOnGrid ==
    IF selected_polygon_anchor # NoPos THEN TRUE
    ELSE CenterIsOnGrid(polygons[selected_polygon_index].vertexes)

Pivot ==
    IF selected_polygon_anchor # NoPos THEN selected_polygon_anchor
    ELSE get_center(polygons[selected_polygon_index].vertexes)

drag_selected_polygon(start, end) ==
    /\ call' = "drag_selected_polygon"
    /\ IF selected_polygon_index # None
       THEN LET delta == Minus(end, start)
            IN  TransformSelected(translation(delta[1], delta[2]))
       ELSE UNCHANGED polygons
    /\ UNCHANGED <<selected_polygon_index, selected_polygon_anchor, selected_point>>
    /\ UNCHANGED <<svars, tvars, pvars>>

rotate_selected_polygon(start, end) ==
    /\ call' = "rotate_selected_polygon"
    /\ IF selected_polygon_index # None
       THEN /\ PivotIsOnGrid
            /\ AlongAxis(Minus(start, Pivot)) /\ AlongAxis(Minus(end, Pivot))
            /\ LET angle == calculate_rotation_angle(Pivot, start, end)
               IN  TransformSelected(rotation_around_point(angle, Pivot[1], Pivot[2]))
       ELSE UNCHANGED polygons
    /\ UNCHANGED <<selected_polygon_index, selected_polygon_anchor, selected_point>>
    /\ UNCHANGED <<svars, tvars, pvars>>

scale_selected_polygon(start, end) ==
    /\ call' = "scale_selected_polygon"
    /\ IF selected_polygon_index # None
       THEN /\ PivotIsOnGrid
            /\ ScaleIsOnGrid(start[1] - Pivot[1], end[1] - Pivot[1])
            /\ ScaleIsOnGrid(start[2] - Pivot[2], end[2] - Pivot[2])
            /\ LET scale == calculate_scale(Pivot, start, end)
               IN  TransformSelected(scaling_around_point(scale[1], scale[2],
                                                          Pivot[1], Pivot[2]))
       ELSE UNCHANGED polygons
    /\ UNCHANGED <<selected_polygon_index, selected_polygon_anchor, selected_point>>
    /\ UNCHANGED <<svars, tvars, pvars>>

EditorNext ==
    \/ clear_canvas
    \/ \E pos \in Clicks :
          VertexCount(polygons, 1) < MaxCorners /\ add_vertex_to_selected_polygon(pos)
    \/ \E pos \in Clicks : select_polygon(pos)
    \/ \E pos \in Clicks : change_anchor(pos)
    \/ \E pos \in Clicks : change_point(pos)
    \/ \E start \in Clicks : \E end \in Clicks : drag_selected_polygon(start, end)
    \/ \E start \in Clicks : \E end \in Clicks : rotate_selected_polygon(start, end)
    \/ \E start \in Clicks : \E end \in Clicks : scale_selected_polygon(start, end)

EditorSpec == EditorInit /\ [][EditorNext]_vars

\* ---- find_right_conjugate_point called alone --------------------------------
\* a list of MaxPoints points of the wider grid, and no triangulation
FindInit ==
    /\ points \in [1..MaxPoints -> WidePos2]
    /\ triangles = <<>>
    /\ alive_edges = {}
    /\ dead_edges = {}
    /\ call = "default"
    /\ popped = <<>>
    /\ current_edge = NoEdge
    /\ right_point = None
    /\ InitTransform
    /\ InitPolygon
    /\ InitEditor

\* the function is called with an Edge, whose first index is the smaller one
FindRightConjugatePoint(edge) ==
    /\ call' = "find_right_conjugate_point"
    /\ current_edge' = edge
    /\ right_point' = find_right_conjugate_point(points, edge)
    /\ UNCHANGED <<points, triangles, alive_edges, dead_edges, popped>>
    /\ UNCHANGED <<tvars, pvars, evars>>

FindNext ==
    \E i, j \in 1..Len(points) : i < j /\ FindRightConjugatePoint(EdgeNew(i, j))

FindSpec == FindInit /\ [][FindNext]_vars

\* ---- properties of the triangulator ---------------------------------------

\* cross product of q - p and r - p
Orient(p, q, r) == (q[1] - p[1]) * (r[2] - p[2]) - (q[2] - p[2]) * (r[1] - p[1])

Indices == 1..Len(points)

\* no three points of the list on one line (which also makes them distinct)
NoThreeCollinear ==
    \A i, j, k \in Indices :
        (i < j /\ j < k) => Orient(points[i], points[j], points[k]) # 0

\* the three sides of a triangle of the list, as stored edges
Sides(t) == {EdgeNew(t[1], t[2]), EdgeNew(t[1], t[3]), EdgeNew(t[2], t[3])}

\* the triangle as an unordered triple of indices
Corners(t) == {t[1], t[2], t[3]}

\* the last step_triangulation took at least one edge and left alive_edges
\* empty: stepping after an initialization has just emptied the set
SteppedToCompletion == call = "step" /\ popped # <<>> /\ alive_edges = {}

\* the last step_triangulation emitted a triangle
EmittedTriangle == call = "step" /\ right_point # None

\* ---- C1 --------------------------------------------------------------------
\* C1: in every reachable state no edge is a member of both alive_edges and
\* dead_edges.
C1_AliveDeadDisjoint == alive_edges \cap dead_edges = {}

\* a step has emitted a triangle one new edge of which is dead afterwards
\* while the other is alive
C1_Witness ==
    /\ EmittedTriangle
    /\ \E k \in 1..2 :
          /\ EdgeNew(current_edge[k], right_point) \in dead_edges
          /\ EdgeNew(current_edge[3 - k], right_point) \in alive_edges

\* ---- C2 --------------------------------------------------------------------
\* C2: for 3 non-collinear points in any index order, stepping to completion
\* after the initialization yields exactly 1 triangle, no alive edge, and
\* dead_edges holding exactly the 3 edges between the points.
C2_ThreePointsOneTriangle ==
    (Len(points) = 3 /\ NoThreeCollinear /\ SteppedToCompletion)
        => /\ Len(triangles) = 1
           /\ alive_edges = {}
           /\ dead_edges = {<<1, 2>>, <<1, 3>>, <<2, 3>>}

\* ---- C3 --------------------------------------------------------------------
\* C3: for n >= 3 points with no three collinear, once stepping has emptied
\* alive_edges, the seed edge and every side of every emitted triangle are
\* members of dead_edges.
C3_AllEdgesDeadAtCompletion ==
    (Len(points) >= 3 /\ NoThreeCollinear /\ SteppedToCompletion)
        => /\ find_initial_edge(points) \in dead_edges
           /\ \A n \in 1..Len(triangles) : Sides(triangles[n]) \subseteq dead_edges

\* ---- C4 --------------------------------------------------------------------
\* the edge has input points strictly on both of its sides
IsInteriorEdge(e) ==
    \E i, j \in Indices :
        /\ Orient(points[e[1]], points[e[2]], points[i]) > 0
        /\ Orient(points[e[1]], points[e[2]], points[j]) < 0

\* number of emitted triangles the edge is a side of
Bordering(e) == Cardinality({n \in 1..Len(triangles) : e \in Sides(triangles[n])})

\* C4: for n >= 3 points with no three collinear, after stepping to
\* completion every side of an emitted triangle is a side of exactly 2
\* emitted triangles if it is an interior edge and of exactly 1 if it is a
\* convex-hull edge.
C4_EdgeBordersTwoOrOne ==
    (Len(points) >= 3 /\ NoThreeCollinear /\ SteppedToCompletion)
        => \A n \in 1..Len(triangles) : \A e \in Sides(triangles[n]) :
              Bordering(e) = IF IsInteriorEdge(e) THEN 2 ELSE 1

\* ---- C5 --------------------------------------------------------------------
\* the alive edges the search loop does not discard
Productive(pts, alive, dead) ==
    {e \in alive : e \notin dead /\ find_right_conjugate_point(pts, e) # None}

\* the smallest edge of a non-empty set of edges
MinEdge(S) ==
    CHOOSE e \in S : \A f \in S : e[1] < f[1] \/ (e[1] = f[1] /\ e[2] <= f[2])

RECURSIVE RunFrom(_, _, _, _)
\* the triangles of the run that always takes the smallest productive edge
RunFrom(pts, tris, alive, dead) ==
    IF Productive(pts, alive, dead) = {} THEN tris
    ELSE LET after == TriangleStep(pts, tris, alive, dead, {},
                                   MinEdge(Productive(pts, alive, dead)))
         IN  RunFrom(pts, after.triangles, after.alive, after.dead)

TriangleSet(tris) == {Corners(tris[n]) : n \in 1..Len(tris)}

\* C5: for a fixed point list the set of emitted triangles, as unordered
\* index triples, is the same after stepping to completion whatever the order
\* in which edges were taken from alive_edges: it is the set of the run that
\* takes the smallest edge first.
C5_OrderIndependent ==
    (Len(points) >= 3 /\ SteppedToCompletion)
        => TriangleSet(triangles)
           = TriangleSet(RunFrom(points, <<>>, {find_initial_edge(points)}, {}))

\* ---- C6 --------------------------------------------------------------------
\* C6: when step_triangulation takes from alive_edges an edge that is not dead
\* and has no right conjugate point, the edge is in dead_edges afterwards, no
\* triangle is appended, and it is the last edge the call takes.
C6_HullEdgeMarkedDead ==
    [][(call' = "step")
          => \A i \in 1..Len(popped') :
                (/\ popped'[i] \notin dead_edges
                 /\ find_right_conjugate_point(points, popped'[i]) = None)
                    => /\ popped'[i] \in dead_edges'
                       /\ triangles' = triangles
                       /\ i = Len(popped')]_vars

\* ---- C7 --------------------------------------------------------------------
\* C7: when step_triangulation finds a best point for the current edge, each
\* of the two edges (current endpoint, best point) that was in neither set
\* before the call is alive afterwards, one that was alive is dead and not
\* alive afterwards, one that was dead stays dead; and the current edge is
\* dead afterwards.
C7_NewEdgeBookkeeping ==
    [][(call' = "step" /\ right_point' # None)
          => /\ current_edge' \in dead_edges'
             /\ \A k \in 1..2 :
                   LET e == EdgeNew(current_edge'[k], right_point')
                   IN  /\ (e \notin alive_edges /\ e \notin dead_edges)
                              => e \in alive_edges'
                       /\ e \in alive_edges
                              => (e \in dead_edges' /\ e \notin alive_edges')
                       /\ e \in dead_edges => e \in dead_edges']_vars

\* ---- C8 --------------------------------------------------------------------
\* C8: every edge a triangle-producing step inserts into alive_edges is
\* stored with a direction for which the third vertex of that triangle is
\* not on its right, as find_right_conjugate_point tests it.
C8_NewEdgeLooksAway ==
    EmittedTriangle
        => \A k \in 1..2 :
              LET e == EdgeNew(current_edge[k], right_point)
                  third == current_edge[3 - k]
              IN  e \in alive_edges
                     => ~is_point_right(points[e[1]], points[e[2]], points[third])

\* ---- C9 --------------------------------------------------------------------
\* C9: after init_triangulation on >= 3 points the triangulation is
\* initialized, it stays initialized after every step_triangulation, and a
\* step that leaves alive_edges empty leaves the triangulation completed.
C9_InitializedThenCompleted ==
    [][/\ (call' = "init" /\ Len(points) >= 3) => is_triangulation_initialized'
       /\ (call' = "step" /\ is_triangulation_initialized)
             => /\ is_triangulation_initialized'
                /\ alive_edges' = {} => is_triangulation_completed']_vars

\* ---- C10 -------------------------------------------------------------------
\* number of edges over the point list
NumPairs == (Len(points) * (Len(points) - 1)) \div 2

\* edges not yet dead, then edges alive, in lexicographic order
Measure ==
    (NumPairs - Cardinality(dead_edges)) * (NumPairs + 1) + Cardinality(alive_edges)

\* C10: repeated step_triangulation calls empty alive_edges after finitely
\* many calls, whatever the order in which edges are taken: every call made
\* while an edge is alive strictly decreases Measure, which is never
\* negative, so at most Measure calls are made before alive_edges is empty;
\* and the loop of one call takes no more edges than were alive.
C10_SteppingTerminates ==
    [][(call' = "step" /\ alive_edges # {})
          => /\ Measure' < Measure
             /\ Measure' >= 0
             /\ Len(popped') <= Cardinality(alive_edges)]_vars

\* a run that emitted at least two triangles and whose last call took and
\* discarded the edges still alive, which emptied alive_edges
C10_Witness ==
    /\ SteppedToCompletion
    /\ Len(triangles) >= 2
    /\ right_point = None

\* ---- C11 -------------------------------------------------------------------
\* C11: init_triangulation on a state with fewer than 3 points leaves
\* triangles, alive_edges, dead_edges and points unchanged, also when the
\* state holds the triangles and dead edges of an earlier triangulation.
C11_InitBelowThreeIsNoOp ==
    [][(call' = "init" /\ Len(points) < 3)
          => UNCHANGED <<triangles, alive_edges, dead_edges, points>>]_vars

\* init_triangulation has been called on fewer than 3 points in a state that
\* holds the results of an earlier triangulation
C11_Witness ==
    /\ call = "init"
    /\ Len(points) < 3
    /\ triangles # <<>>
    /\ dead_edges # {}

\* ---- C12 -------------------------------------------------------------------
\* C12: init_triangulation on a state with 3 or more points, whatever the
\* state held before, leaves triangles empty, dead_edges empty and
\* alive_edges with exactly one edge, and does not change points.
C12_InitResetsAndSeeds ==
    [][(call' = "init" /\ Len(points) >= 3)
          => /\ triangles' = <<>>
             /\ dead_edges' = {}
             /\ Cardinality(alive_edges') = 1
             /\ points' = points]_vars

\* init_triangulation has been called on 3 or more points and the state holds
\* the seed edge and nothing else
C12_Witness ==
    /\ call = "init"
    /\ Len(points) >= 3
    /\ triangles = <<>>
    /\ dead_edges = {}
    /\ alive_edges = {find_initial_edge(points)}

\* ---- C13 -------------------------------------------------------------------
PairwiseDistinct == \A i, j \in Indices : i # j => points[i] # points[j]

\* the index of the point with the lowest x and, among those, the lowest y
Leftmost ==
    CHOOSE i \in Indices :
        \A j \in Indices :
            \/ points[i][1] < points[j][1]
            \/ points[i][1] = points[j][1] /\ points[i][2] <= points[j][2]

\* C13: for 3 or more pairwise distinct points the seed edge that
\* init_triangulation gets from find_initial_edge has the leftmost point
\* (lowest x, then lowest y) as one endpoint, and no point lies strictly on
\* one side of its line while another lies strictly on the other side.
C13_SeedEdgeOnHull ==
    (call = "init" /\ Len(points) >= 3 /\ PairwiseDistinct)
        => /\ alive_edges = {find_initial_edge(points)}
           /\ \A e \in alive_edges :
                 /\ Leftmost \in {e[1], e[2]}
                 /\ ~IsInteriorEdge(e)

\* the seed edge of 4 distinct points, two of which share the lowest x, has
\* been found, and the other two points are strictly off its line
C13_Witness ==
    /\ call = "init"
    /\ Len(points) = 4
    /\ PairwiseDistinct
    /\ \E i, j \in Indices : i # j /\ points[i][1] = points[j][1]
                               /\ \A k \in Indices : points[i][1] <= points[k][1]
    /\ \A e \in alive_edges :
          Cardinality({k \in Indices : Orient(points[e[1]], points[e[2]], points[k]) # 0}) = 2

\* ---- C14 -------------------------------------------------------------------
\* C14: step_triangulation called on a state whose alive_edges is empty,
\* completed or never initialized, leaves triangles, alive_edges, dead_edges
\* and points unchanged.
C14_StepOnEmptyIsNoOp ==
    [][(call' = "step" /\ alive_edges = {})
          => UNCHANGED <<triangles, alive_edges, dead_edges, points>>]_vars

\* step_triangulation has been called on a completed triangulation: it took
\* no edge, and the state holds triangles and dead edges
C14_Witness ==
    /\ call = "step"
    /\ popped = <<>>
    /\ is_triangulation_completed
    /\ triangles # <<>>

\* ---- C15 -------------------------------------------------------------------
\* the points strictly on the right of the directed edge edge[1] -> edge[2]
\* (which are not collinear with its endpoints)
RightCandidates(edge) ==
    {i \in Indices \ {edge[1], edge[2]} :
        Orient(points[edge[1]], points[edge[2]], points[i]) < 0}

\* Signed projection of (circumcentre - midpoint) onto the right-pointing
\* normal <<dy, -dx>> of the edge, for the circle through the endpoints and
\* points[i], as the quotient num / den times the length of the edge.  The
\* circumcentre is <<ux, uy>> / (2 * orient) by the determinant formula.
SignedProjection(edge, i) ==
    LET p1 == points[edge[1]]
        p2 == points[edge[2]]
        p3 == points[i]
        orient == Orient(p1, p2, p3)
        n1 == p1[1] * p1[1] + p1[2] * p1[2]
        n2 == p2[1] * p2[1] + p2[2] * p2[2]
        n3 == p3[1] * p3[1] + p3[2] * p3[2]
        ux == n1 * (p2[2] - p3[2]) + n2 * (p3[2] - p1[2]) + n3 * (p1[2] - p2[2])
        uy == n1 * (p3[1] - p2[1]) + n2 * (p1[1] - p3[1]) + n3 * (p2[1] - p1[1])
        dx == p2[1] - p1[1]
        dy == p2[2] - p1[2]
    IN  [num |-> (ux - orient * (p1[1] + p2[1])) * dy
                 - (uy - orient * (p1[2] + p2[2])) * dx,
         den |-> 2 * orient]

\* s <= t for two quotients with non-zero denominators of any sign
QuotientLeq(s, t) == s.num * s.den * t.den * t.den <= t.num * t.den * s.den * s.den

\* C15: find_right_conjugate_point returns, among the points strictly on the
\* right of the directed edge, one that minimizes the signed projection of
\* (circumcentre - edge midpoint) onto the right-pointing normal of the edge,
\* and returns None exactly when there is no such point.
C15_MinimalSignedProjection ==
    (call = "find_right_conjugate_point")
        => /\ right_point = None <=> RightCandidates(current_edge) = {}
           /\ right_point # None
                 => /\ right_point \in RightCandidates(current_edge)
                    /\ \A i \in RightCandidates(current_edge) :
                          QuotientLeq(SignedProjection(current_edge, right_point),
                                      SignedProjection(current_edge, i))

\* ---- properties of Transform2D ---------------------------------------------

\* self applied to the point q
ApplyTo(self, q) == apply(self, q[1], q[2])

\* the points the transforms are applied to
TestPoints == Coefs \X Coefs

\* ---- C16 -------------------------------------------------------------------
\* C16: for all transforms A and B and all points p, A.multiply(B).apply(p)
\* equals A.apply(B.apply(p)): the right operand is applied first.
C16_MultiplyAppliesRightFirst ==
    (call = "multiply")
        => \A p \in TestPoints :
              ApplyTo(ret.value, p) = ApplyTo(transform, ApplyTo(args[1], p))

\* multiply has been called on two transforms whose order matters
C16_Witness ==
    /\ call = "multiply"
    /\ \E p \in TestPoints :
          ApplyTo(transform, ApplyTo(args[1], p)) # ApplyTo(args[1], ApplyTo(transform, p))

\* ---- C17 -------------------------------------------------------------------
\* C17: for every transform T with determinant 1 or -1 and every point p,
\* T.inverse().apply(T.apply(p)) equals p.
C17_InverseRoundTrip ==
    (call = "inverse" /\ determinant(transform) # 0)
        => /\ ~ret.panic
           /\ \A p \in TestPoints : ApplyTo(ret.value, ApplyTo(transform, p)) = p

\* ---- C18 -------------------------------------------------------------------
\* the error value the claim names
SingularTransform == "SingularTransform"

\* C18: inverse() on a transform whose determinant a*e - b*d is zero gives
\* the caller the error SingularTransform as a value, neither a transform nor
\* a panic, and leaves the transform it was called on unchanged.
C18_SingularInverseIsAnErrorValue ==
    [][(call' = "inverse" /\ determinant(transform) = 0)
          => /\ ~ret'.panic
             /\ ret'.value = SingularTransform
             /\ transform' = transform]_vars

\* ---- C19 -------------------------------------------------------------------
\* C19: rotation by a quarter turn is counter-clockwise in the coordinates of
\* apply: rotation(pi/2).apply(1,0) = (0,1) and rotation(pi/2).apply(0,1) =
\* (-1,0).
C19_RotationCounterClockwise ==
    (call = "rotation" /\ args[1] = 1)
        => /\ apply(ret.value, 1, 0) = <<0, 1>>
           /\ apply(ret.value, 0, 1) = <<-1, 0>>

\* ---- C20 -------------------------------------------------------------------
\* C20: for every centre c, every point p and every angle theta that is a
\* multiple of a quarter turn, rotation_around_point(theta, c) followed by
\* rotation_around_point(-theta, c) returns p, and
\* rotation_around_point(theta, c) maps c to c.
C20_RotationAroundPointRoundTrip ==
    (call = "rotation_around_point")
        => LET back == rotation_around_point(-args[1], args[2], args[3])
               c == <<args[2], args[3]>>
           IN  /\ ApplyTo(ret.value, c) = c
               /\ \A p \in TestPoints : ApplyTo(back, ApplyTo(ret.value, p)) = p

\* a rotation by one quarter turn around a centre other than the origin has
\* been built, and it moves the origin
C20_Witness ==
    /\ call = "rotation_around_point"
    /\ args[1] = 1
    /\ <<args[2], args[3]>> # <<0, 0>>
    /\ apply(ret.value, 0, 0) # <<0, 0>>

\* ---- properties of Polygon -------------------------------------------------

\* ---- C21 -------------------------------------------------------------------
\* C21: after any sequence of add_vertex and apply_transform calls, also with
\* transforms of determinant 0, the cached intersections list is the list
\* update_intersections computes from the current vertex list.
C21_CacheIsConsistent == intersections = update_intersections(vertexes)

\* ---- C22 -------------------------------------------------------------------
Triangle22 == <<<<0, 0>>, <<1, 0>>, <<0, 1>>>>

Bowtie22 == <<<<0, 0>>, <<1, 1>>, <<1, 0>>, <<0, 1>>>>

\* C22: the polygon built by add_vertex with the vertexes (0,0), (1,0), (0,1)
\* is convex and has an empty intersection cache; the one built with (0,0),
\* (1,1), (1,0), (0,1) is not convex and its cache contains (0.5, 0.5); a
\* polygon with fewer than 3 vertexes is not convex.
C22_TriangleAndBowtie ==
    /\ (call = "add_vertex" /\ vertexes = Triangle22)
          => (is_convex(vertexes) /\ intersections = <<>>)
    /\ (call = "add_vertex" /\ vertexes = Bowtie22)
          => (~is_convex(vertexes) /\ InList(<<1, 1, 2>>, intersections))
    /\ Len(vertexes) < 3 => ~is_convex(vertexes)

\* the last vertex of the self-intersecting quadrilateral has been added
C22_Witness ==
    /\ call = "add_vertex"
    /\ vertexes = Bowtie22
    /\ intersections = <<<<1, 1, 2>>>>

\* ---- C26 -------------------------------------------------------------------
\* C26: for every polygon built by add_vertex, is_convex() = true implies
\* that the intersection cache is empty.
C26_ConvexHasNoIntersections ==
    is_convex(vertexes) => intersections = <<>>


\* ---- properties of the triangulator, continued ------------------------------
\* ---- C23 -------------------------------------------------------------------
\* C23: every edge of alive_edges and of dead_edges is stored with its smaller
\* index first, the two indices differ and both are indices of points; and
\* Edge::new(a, b) is the same element as Edge::new(b, a)
C23_EdgesCanonical ==
    /\ \A e \in alive_edges \cup dead_edges :
          e[1] < e[2] /\ e[1] \in Indices /\ e[2] \in Indices
    /\ \A a \in Indices : \A b \in Indices : EdgeNew(a, b) = EdgeNew(b, a)

\* a step has built a triangle, and edges are both alive and dead
C23_Witness ==
    /\ call = "step"
    /\ triangles # <<>>
    /\ alive_edges # {}
    /\ Cardinality(dead_edges) >= 2

\* ---- C24 -------------------------------------------------------------------
\* what a call other than an initialization keeps: the triangles emitted so
\* far stay where they are, at most one is appended, no edge leaves
\* dead_edges, and a call that appends a triangle makes dead an edge that was
\* not dead
KeepsResults ==
    /\ Len(triangles') \in {Len(triangles), Len(triangles) + 1}
    /\ SubSeq(triangles', 1, Len(triangles)) = triangles
    /\ dead_edges \subseteq dead_edges'
    /\ Len(triangles') = Len(triangles) + 1 => dead_edges' \ dead_edges # {}

\* C24: on n points there are never more triangles than dead edges nor more
\* dead edges than the n * (n - 1) / 2 pairs of points; a call appends at most
\* one triangle, a call that appends one adds a new dead edge, and between two
\* initializations no edge leaves dead_edges and no triangle is removed
C24_TrianglesAndDeadEdges ==
    [][/\ Len(triangles') <= Cardinality(dead_edges')
       /\ 2 * Cardinality(dead_edges') <= Len(points') * (Len(points') - 1)
       /\ call' # "init" => KeepsResults]_vars

\* two steps have appended a triangle each
C24_Witness ==
    /\ call = "step"
    /\ Len(triangles) >= 2
    /\ Cardinality(dead_edges) >= Len(triangles)

\* ---- C25 -------------------------------------------------------------------
\* C25: every triangle in the list has three different indices of points, and
\* its third point has a strictly negative cross product against the edge
\* directed from its first point to its second, so the three points are not
\* collinear and the triangle has a non-zero area
C25_NoZeroAreaTriangle ==
    \A k \in 1..Len(triangles) :
        LET t == triangles[k]
        IN  /\ {t[1], t[2], t[3]} \subseteq Indices
            /\ Cardinality({t[1], t[2], t[3]}) = 3
            /\ Orient(points[t[1]], points[t[2]], points[t[3]]) < 0

\* a triangle was emitted on a point list that holds the same point twice
C25_Witness ==
    /\ call = "step"
    /\ triangles # <<>>
    /\ \E i \in Indices : \E j \in Indices : i # j /\ points[i] = points[j]

\* ---- properties of the editor ------------------------------------------------
SelectionIsValid ==
    selected_polygon_index = None \/ selected_polygon_index \in 1..Len(polygons)

\* ---- C27 -------------------------------------------------------------------
\* C27: after every editor action selected_polygon_index is None or an index
\* of polygons; add-vertex with no selection appends a polygon of one vertex
\* and selects it; clear_canvas leaves polygons empty and the selection, the
\* anchor and the point None
C27_SelectionStaysValid ==
    [][/\ SelectionIsValid'
       /\ (call' = "add_vertex_to_selected_polygon" /\ selected_polygon_index = None)
             => /\ Len(polygons') = Len(polygons) + 1
                /\ SubSeq(polygons', 1, Len(polygons)) = polygons
                /\ Len(polygons'[Len(polygons')].vertexes) = 1
                /\ selected_polygon_index' = Len(polygons')
       /\ call' = "clear_canvas"
             => /\ polygons' = <<>>
                /\ selected_polygon_index' = None
                /\ selected_polygon_anchor' = NoPos
                /\ selected_point' = NoPos]_vars

\* add-vertex with no selection has made a second polygon and selected it
C27_Witness ==
    /\ call = "add_vertex_to_selected_polygon"
    /\ Len(polygons) = 2
    /\ selected_polygon_index = 2
    /\ Len(polygons[2].vertexes) = 1
====
